---- MODULE Spec2Model ----
(***************************************************************************)
(* The Dubai real-estate pattern recommender of src/app.py: the cached     *)
(* transaction table and pattern matrix, the sidebar filter form, and the  *)
(* script run that follows "Run Analysis" (filter, capacity check,         *)
(* quarterly aggregation, QoQ / YoY changes, classification and pattern    *)
(* lookup).                                                                *)
(*                                                                         *)
(* Representation.  A table is a set of entries; an entry stands for n     *)
(* identical rows (n >= 1), so a table of 300,001 rows is a small value.   *)
(* Nothing in the script depends on the order of the rows of df.  A date   *)
(* is a month number (month 0 is the first month of quarter 0).  A missing *)
(* number or date (NaN, NaT) is None, a present one is Some(v); a missing  *)
(* string is NA.  A float is a record: a reduced fraction, or one of the   *)
(* IEEE specials inf, -inf, nan; the arithmetic on finite floats is exact. *)
(***************************************************************************)
EXTENDS Integers, Sequences, FiniteSets, TLC

VARIABLES
    df,           \* the table load_data() returned (cached for the process)
    patterns_df,  \* the table load_patterns() returned (cached)
    submit,       \* the form's submit button in the current script run
    area,         \* the five form values of the current script run
    prop_type,
    bedrooms,
    budget,
    date_range,
    assigned,     \* the names the current script run has bound
    filtered,
    grouped,
    latest,
    previous,
    year_ago,
    qoq_price,
    qoq_volume,
    yoy_price,
    yoy_volume,
    pattern_key,
    matched,
    insight,
    reco,
    out           \* what the current script run rendered, in order

form == <<area, prop_type, bedrooms, budget, date_range>>
locals == <<filtered, grouped, latest, previous, year_ago, qoq_price,
            qoq_volume, yoy_price, yoy_volume, pattern_key, matched,
            insight, reco>>
vars == <<df, patterns_df, submit, form, assigned, locals, out>>

----------------------------------------------------------------------------
(* Bounds of the model *)

\* the most entries a transactions file holds in specification Spec
MaxRows == 2
\* the number of calendar quarters a file spans in specification SpecSeries
NumQuarters == 6

(* Program constants *)

\* if len(filtered) > 300_000
Ceiling == 300000
\* pd.Grouper(freq="Q"): a bin is a calendar quarter, three months
MonthsPerQuarter == 3
\* grouped.iloc[-5] if len(grouped) >= 5
YearAgoOffset == 5

----------------------------------------------------------------------------
(* Missing values and floats *)

NA == "<NA>"
None == <<>>
Some(v) == <<v>>
IsNull(x) == x = None
Val(x) == x[1]

RECURSIVE GCD(_, _)
GCD(a, b) == IF b = 0 THEN a ELSE GCD(b, a % b)

Abs(n) == IF n < 0 THEN 0 - n ELSE n

\* the float n / d, d # 0
Fin(n, d) ==
    LET s == IF d < 0 THEN 0 - 1 ELSE 1
        g == GCD(Abs(n), Abs(d))
    IN  [kind |-> "fin", num |-> (s * n) \div g, den |-> (s * d) \div g]
PosInf == [kind |-> "inf", num |-> 1, den |-> 0]
NegInf == [kind |-> "-inf", num |-> 0 - 1, den |-> 0]
NaN == [kind |-> "nan", num |-> 0, den |-> 0]
\* the value of a name the script run has not bound
Unbound == [kind |-> "unbound", num |-> 0, den |-> 0]

IsFin(x) == x.kind = "fin"

\* x - y on floats
FSub(x, y) ==
    IF IsFin(x) /\ IsFin(y)
    THEN Fin(x.num * y.den - y.num * x.den, x.den * y.den)
    ELSE IF x.kind = "nan" \/ y.kind = "nan" THEN NaN
    ELSE IF IsFin(y) THEN x
    ELSE IF IsFin(x) THEN (IF y.kind = "inf" THEN NegInf ELSE PosInf)
    ELSE IF x.kind = y.kind THEN NaN ELSE x

\* the value of an expression that raised
Raised == [kind |-> "raised", num |-> 0, den |-> 0]

\* FDiv as Python's own float divides: ZeroDivisionError on a zero divisor
FDivPython(x, y) ==
    IF IsFin(x) /\ IsFin(y) /\ y.num # 0 THEN Fin(x.num * y.den, x.den * y.num)
    ELSE Raised

\* x / y on numpy.float64 (the type of latest["avg_price"] and, the row being
\* upcast, of latest["volume"]): a zero divisor gives inf, -inf or nan with a
\* RuntimeWarning, never an exception
FDiv(x, y) ==
    IF x.kind = "nan" \/ y.kind = "nan" THEN NaN
    ELSE IF IsFin(x) /\ IsFin(y)
    THEN IF y.num # 0 THEN Fin(x.num * y.den, x.den * y.num)
         ELSE IF x.num > 0 THEN PosInf
         ELSE IF x.num < 0 THEN NegInf
         ELSE NaN
    ELSE IF IsFin(x) THEN Fin(0, 1)
    ELSE IF ~IsFin(y) THEN NaN
    ELSE IF (x.kind = "inf") = (y.num >= 0) THEN PosInf ELSE NegInf

\* x * 100
FMul100(x) ==
    IF IsFin(x) THEN Fin(x.num * 100, x.den) ELSE x

\* value > 0 and value < 0 on floats; both are False on nan
FGt0(x) == (IsFin(x) /\ x.num > 0) \/ x.kind = "inf"
FLt0(x) == (IsFin(x) /\ x.num < 0) \/ x.kind = "-inf"

----------------------------------------------------------------------------
(* Tables *)

\* An entry of transactions.parquet: n identical rows.  instance_date is the
\* raw column: <<"date", d>> a timestamp, <<"text", 0>> a value that does not
\* parse, <<"null", 0>> a missing one.
RawEntry(a, p, r, w, d, t, n) ==
    [area_name_en |-> a, property_type_en |-> p, rooms_en |-> r,
     actual_worth |-> w, instance_date |-> d, transaction_id |-> t, n |-> n]

\* pd.to_datetime(x, errors="coerce") on one value
to_datetime_coerce(raw) ==
    IF raw[1] = "date" THEN Some(raw[2]) ELSE None

\* load_data(): read the file and coerce instance_date; no row is dropped
load_data(file) ==
    { [e EXCEPT !.instance_date = to_datetime_coerce(e.instance_date)] : e \in file }

\* load_patterns(): the rows of PatternMatrix.csv, in file order
load_patterns(csv) == csv

PatternRow(id, i, r) == [PatternID |-> id, Insight |-> i, Recommendation |-> r]

RECURSIVE SumF(_, _)
\* the sum of f[x] over x in S
SumF(f, S) ==
    IF S = {} THEN 0
    ELSE LET x == CHOOSE y \in S : TRUE
         IN  f[x] + SumF(f, S \ {x})

\* len(table)
RowCount(t) == SumF([e \in t |-> e.n], t)

SetMin(S) == CHOOSE x \in S : \A y \in S : x <= y
SetMax(S) == CHOOSE x \in S : \A y \in S : y <= x

Worths(t) == { Val(e.actual_worth) : e \in { x \in t : ~IsNull(x.actual_worth) } }
Dates(t) == { Val(e.instance_date) : e \in { x \in t : ~IsNull(x.instance_date) } }

----------------------------------------------------------------------------
(* The sidebar form *)

\* sorted(df[col].dropna().unique()): the options of a multiselect
AreaOptions(t) == { e.area_name_en : e \in t } \ {NA}
TypeOptions(t) == { e.property_type_en : e \in t } \ {NA}
RoomOptions(t) == { e.rooms_en : e \in t } \ {NA}

\* st.slider(int(min), int(max), int(max)): min() and max() skip NaN
SliderMin(t) == SetMin(Worths(t))
SliderMax(t) == SetMax(Worths(t))
\* st.date_input([min, max]): min() and max() skip NaT
DefaultDates(t) == <<SetMin(Dates(t)), SetMax(Dates(t))>>

\* line 36 raises on a table with no worth (int(nan)), and the date input has
\* no default on a table with no date: the form exists for the other tables
FormRenders(t) == Worths(t) # {} /\ Dates(t) # {}

----------------------------------------------------------------------------
(* Lines 44-52: the filter *)

\* LeqNaN with a missing worth passing the comparison
LeqNaNKeepsMissing(w, b) == IF IsNull(w) THEN TRUE ELSE Val(w) <= b

\* BetweenNaT with the end of the interval left out
BetweenNaTOpenEnd(d, lo, hi) == IF IsNull(d) THEN FALSE ELSE Val(d) >= lo /\ Val(d) < hi

\* column <= budget, False on NaN
LeqNaN(w, b) == IF IsNull(w) THEN FALSE ELSE Val(w) <= b
\* (column >= lo) & (column <= hi), False on NaT
BetweenNaT(d, lo, hi) == IF IsNull(d) THEN FALSE ELSE Val(d) >= lo /\ Val(d) <= hi

\* if area: filtered = filtered[filtered["area_name_en"].isin(area)]
FilterArea(t, sel) ==
    IF sel # {} THEN { e \in t : e.area_name_en \in sel } ELSE t
FilterType(t, sel) ==
    IF sel # {} THEN { e \in t : e.property_type_en \in sel } ELSE t
FilterRooms(t, sel) ==
    IF sel # {} THEN { e \in t : e.rooms_en \in sel } ELSE t
FilterBudget(t, b) == { e \in t : LeqNaN(e.actual_worth, b) }
FilterDates(t, dr) == { e \in t : BetweenNaT(e.instance_date, dr[1], dr[2]) }

Filter(t, a, p, r, b, dr) ==
    FilterDates(FilterBudget(FilterRooms(FilterType(FilterArea(t, a), p), r), b), dr)

\* OverCapacity refusing a result of exactly the ceiling
OverCapacityAtCeiling(t) == RowCount(t) >= Ceiling

\* len(filtered) > 300_000
OverCapacity(t) == RowCount(t) > Ceiling

----------------------------------------------------------------------------
(* Lines 61-64: the quarterly aggregation *)

Quarter(d) == d \div MonthsPerQuarter

\* the rows of a table whose instance_date falls in quarter q
InQuarter(t, q) ==
    { e \in t : ~IsNull(e.instance_date) /\ Quarter(Val(e.instance_date)) = q }

\* "actual_worth": "mean": the mean of the worths that are not NaN, NaN when
\* there is none
Mean(t) ==
    LET w == { e \in t : ~IsNull(e.actual_worth) }
    IN  IF w = {} THEN NaN
        ELSE Fin(SumF([e \in w |-> Val(e.actual_worth) * e.n], w), RowCount(w))

\* "transaction_id": "count": the number of transaction ids that are not null
Count(t) ==
    LET c == { e \in t : e.transaction_id # NA }
    IN  RowCount(c)

Bucket(t, q) ==
    [quarter |-> q, avg_price |-> Mean(InQuarter(t, q)), volume |-> Count(InQuarter(t, q))]

\* groupby(pd.Grouper(key="instance_date", freq="Q")).agg(...): one bin per
\* calendar quarter from the first date's to the last date's, empty or not
Bins(t) ==
    IF Dates(t) = {} THEN << >>
    ELSE LET lo == Quarter(SetMin(Dates(t)))
             hi == Quarter(SetMax(Dates(t)))
         IN  [i \in 1..(hi - lo + 1) |-> Bucket(t, lo + i - 1)]

\* .dropna(): the bins without a NaN (count is never NaN)
DropNa(bins) ==
    LET Keep(b) == b.avg_price.kind # "nan"
    IN  SelectSeq(bins, Keep)

Aggregate(t) == DropNa(Bins(t))

----------------------------------------------------------------------------
(* Lines 66-85: the trend metrics *)

\* a row whose lookup raised IndexError
RaisedRow == [quarter |-> 0, avg_price |-> Raised, volume |-> Raised]

\* grouped.iloc[-k]: the k-th bin from the end, as a float64 row (the integer
\* volume is upcast with the float avg_price); IndexError when there are
\* fewer than k bins
ILocNeg(g, k) ==
    IF k > Len(g) THEN RaisedRow
    ELSE LET b == g[Len(g) - k + 1]
         IN  [quarter |-> b.quarter, avg_price |-> b.avg_price, volume |-> Fin(b.volume, 1)]

\* EnoughQuarters letting a single bin through
EnoughQuartersOne(g) == Len(g) >= 1

\* if len(grouped) >= 2
EnoughQuarters(g) == Len(g) >= 2

\* PctChange relative to the new value
PctChangeOverNew(new, old) == FMul100(FDiv(FSub(new, old), new))

\* ((new - old) / old) * 100
PctChange(new, old) == FMul100(FDiv(FSub(new, old), old))

\* YearAgo four bins from the end instead of four bins before the last
YearAgoFourFromEnd(g) ==
    IF Len(g) >= YearAgoOffset THEN ILocNeg(g, YearAgoOffset - 1) ELSE ILocNeg(g, 2)

\* grouped.iloc[-5] if len(grouped) >= 5 else previous
YearAgo(g) ==
    IF Len(g) >= YearAgoOffset THEN ILocNeg(g, YearAgoOffset) ELSE ILocNeg(g, 2)

\* "Up" if value > 0 else "Down" if value < 0 else "Flat"
classify(value) ==
    IF FGt0(value) THEN "Up" ELSE IF FLt0(value) THEN "Down" ELSE "Flat"

\* f"{a}-{b}-{c}-{d}"
PatternKey(qp, yp, qv, yv) ==
    classify(qp) \o "-" \o classify(yp) \o "-" \o classify(qv) \o "-" \o classify(yv)

\* Values0 taking the last of the rows kept
ValuesLast(m) == m[Len(m)]

\* matched[column].values[0]: the first of the rows kept
Values0(m) == m[1]

\* patterns_df[patterns_df["PatternID"] == pattern_key]
Matched(cat, key) ==
    LET Hit(row) == row.PatternID = key
    IN  SelectSeq(cat, Hit)

----------------------------------------------------------------------------
(* What a script run renders *)

\* f"{x:.1f}": x rounded to one decimal, ties to even; inf and nan as they are
Format1f(x) ==
    IF ~IsFin(x) THEN x
    ELSE LET q == (x.num * 10) \div x.den
             r == x.num * 10 - q * x.den
             t == IF 2 * r > x.den \/ (2 * r = x.den /\ q % 2 = 1) THEN q + 1 ELSE q
         IN  [kind |-> "fin", num |-> t, den |-> 10]

\* one rendered element: the streamlit call, its fixed text, and the number,
\* formatted float or string the text carries
Element(w, label, n, val, text) ==
    [w |-> w, label |-> label, n |-> n, val |-> val, text |-> text]

StartInfo == Element("info", "Use the filters and click 'Run Analysis' to start.", 0, Unbound, "")
TooManyWarning == Element("warning", "Too many results. Please narrow your filters.", 0, Unbound, "")
MatchedSuccess(n) == Element("success", "properties matched.", n, Unbound, "")
SummaryHeader == Element("subheader", "Market Summary Metrics", 0, Unbound, "")
Metric(label, x) == Element("metric", label, 0, Format1f(x), "")
Rule == Element("markdown", "---", 0, Unbound, "")
PatternHeader == Element("subheader", "Pattern Insight & Recommendation", 0, Unbound, "")
DetectedPattern(key) == Element("markdown", "Detected Pattern", 0, Unbound, key)
InsightInfo(text) == Element("info", "", 0, Unbound, text)
RecoSuccess(text) == Element("success", "", 0, Unbound, text)
NoPatternWarning(key) == Element("warning", "No pattern found for:", 0, Unbound, key)
NotEnoughWarning == Element("warning", "Not enough quarterly data for trend metrics.", 0, Unbound, "")
\* an exception that leaves the script: streamlit renders it and the run ends
UncaughtException == Element("exception", "", 0, Unbound, "")

\* the values of the names a run has not bound
NoRow == [quarter |-> 0, avg_price |-> Unbound, volume |-> Unbound]

----------------------------------------------------------------------------
(* The script run after "Run Analysis" (lines 41-101).  Each conjunct is one *)
(* assignment or call of the script, in the script's order.                  *)

\* the names lines 67-98 leave unbound when the script does not reach them
NoTrend ==
    /\ latest' = NoRow
    /\ previous' = NoRow
    /\ qoq_price' = Unbound
    /\ qoq_volume' = Unbound
    /\ year_ago' = NoRow
    /\ yoy_price' = Unbound
    /\ yoy_volume' = Unbound
NoPattern ==
    /\ pattern_key' = ""
    /\ matched' = << >>
NoInsight ==
    /\ insight' = ""
    /\ reco' = ""

\* lines 54-56: st.warning, st.stop()
TooMany ==
    /\ grouped' = << >>
    /\ NoTrend
    /\ NoPattern
    /\ NoInsight
    /\ assigned' = {"filtered"}
    /\ out' = <<TooManyWarning>>

\* lines 100-101
NotEnough ==
    /\ NoTrend
    /\ NoPattern
    /\ NoInsight
    /\ assigned' = {"filtered", "grouped"}
    /\ out' = <<MatchedSuccess(RowCount(filtered')), SummaryHeader, NotEnoughWarning>>

\* a name is bound when the expression assigned to it did not raise and the
\* script reached it
Bound(x) == x \notin {Raised, Unbound}
BoundRow(row) == Bound(row.avg_price)

TrendNames ==
    {"filtered", "grouped", "latest", "previous", "qoq_price", "qoq_volume",
     "year_ago", "yoy_price", "yoy_volume"}

\* lines 67-98; an assignment whose expression raises ends the script
Trend ==
    /\ latest' = ILocNeg(grouped', 1)
    /\ previous' = IF BoundRow(latest') THEN ILocNeg(grouped', 2) ELSE NoRow
    /\ qoq_price' = IF BoundRow(previous')
                    THEN PctChange(latest'.avg_price, previous'.avg_price) ELSE Unbound
    /\ qoq_volume' = IF Bound(qoq_price')
                     THEN PctChange(latest'.volume, previous'.volume) ELSE Unbound
    /\ year_ago' = IF Bound(qoq_volume') THEN YearAgo(grouped') ELSE NoRow
    /\ yoy_price' = IF BoundRow(year_ago')
                    THEN PctChange(latest'.avg_price, year_ago'.avg_price) ELSE Unbound
    /\ yoy_volume' = IF Bound(yoy_price')
                     THEN PctChange(latest'.volume, year_ago'.volume) ELSE Unbound
    /\ LET head == <<MatchedSuccess(RowCount(filtered')), SummaryHeader>>
           metrics == <<Metric("Price QoQ", qoq_price'), Metric("Volume QoQ", qoq_volume'),
                        Metric("Price YoY", yoy_price'), Metric("Volume YoY", yoy_volume'),
                        Rule, PatternHeader>>
       IN  IF ~Bound(yoy_volume')
           THEN \* an expression raised: the names bound before it stay bound,
                \* the exception is rendered, the rest of the script does not run
                /\ NoPattern
                /\ NoInsight
                /\ assigned' = {"filtered", "grouped"}
                       \cup (IF BoundRow(latest') THEN {"latest"} ELSE {})
                       \cup (IF BoundRow(previous') THEN {"previous"} ELSE {})
                       \cup (IF Bound(qoq_price') THEN {"qoq_price"} ELSE {})
                       \cup (IF Bound(qoq_volume') THEN {"qoq_volume"} ELSE {})
                       \cup (IF BoundRow(year_ago') THEN {"year_ago"} ELSE {})
                       \cup (IF Bound(yoy_price') THEN {"yoy_price"} ELSE {})
                /\ out' = head \o <<UncaughtException>>
           ELSE /\ pattern_key' = PatternKey(qoq_price', yoy_price', qoq_volume', yoy_volume')
                /\ matched' = Matched(patterns_df, pattern_key')
                /\ \/ /\ matched' # << >>
                      /\ insight' = Values0(matched').Insight
                      /\ reco' = Values0(matched').Recommendation
                      /\ assigned' = TrendNames \cup {"pattern_key", "matched", "insight", "reco"}
                      /\ out' = head \o metrics \o
                                <<DetectedPattern(pattern_key'), InsightInfo(insight'),
                                  RecoSuccess(reco')>>
                   \/ /\ matched' = << >>
                      /\ NoInsight
                      /\ assigned' = TrendNames \cup {"pattern_key", "matched"}
                      /\ out' = head \o metrics \o <<NoPatternWarning(pattern_key')>>

\* the values the slider and the date input are given in the model: the
\* worths of the table (a budget between two worths keeps what the lower one
\* keeps) and its first and last date
SliderValues(t) == { b \in Worths(t) : SliderMin(t) <= b /\ b <= SliderMax(t) }
DateValues(t) == {SetMin(Dates(t)), SetMax(Dates(t))}
DateRanges(t) == { <<lo, hi>> \in DateValues(t) \X DateValues(t) : lo <= hi }

\* "Run Analysis" on the page a load left: the form is submitted with the
\* values chosen and the script runs with submit = True.  A run binds every
\* name afresh and reads nothing but df, patterns_df and the form, so the runs
\* that follow a run are those that follow the page load.
RunAnalysis ==
    /\ submit = FALSE
    /\ FormRenders(df)
    /\ \E a \in SUBSET AreaOptions(df), p \in SUBSET TypeOptions(df),
          r \in SUBSET RoomOptions(df), b \in SliderValues(df), dr \in DateRanges(df) :
         /\ submit' = TRUE
         /\ area' = a
         /\ prop_type' = p
         /\ bedrooms' = r
         /\ budget' = b
         /\ date_range' = dr
         /\ filtered' = Filter(df, a, p, r, b, dr)
         /\ \/ /\ OverCapacity(filtered')
               /\ TooMany
            \/ /\ ~OverCapacity(filtered')
               /\ grouped' = Aggregate(filtered')
               /\ \/ /\ EnoughQuarters(grouped')
                     /\ Trend
                  \/ /\ ~EnoughQuarters(grouped')
                     /\ NotEnough
    /\ UNCHANGED <<df, patterns_df>>

\* the script run of a page load (lines 103-104): submit is False, the form
\* shows its defaults, nothing but the start message is rendered
Idle(t) ==
    /\ submit' = FALSE
    /\ area' = {}
    /\ prop_type' = {}
    /\ bedrooms' = {}
    /\ budget' = SliderMax(t)
    /\ date_range' = DefaultDates(t)
    /\ filtered' = {}
    /\ grouped' = << >>
    /\ NoTrend
    /\ NoPattern
    /\ NoInsight
    /\ assigned' = {}
    /\ out' = <<StartInfo>>

Reload ==
    /\ FormRenders(df)
    /\ Idle(df)
    /\ UNCHANGED <<df, patterns_df>>

Next == RunAnalysis \/ Reload

----------------------------------------------------------------------------
(* The files the process may find *)

\* PatternMatrix.csv: pattern ids that repeat, that differ from a key in case
\* or in one component only, and keys that no row has
CsvA ==
    << PatternRow("Up-Up-Up-Up", "i1", "r1"),
       PatternRow("Down-Down-Down-Down", "i2", "r2"),
       PatternRow("Up-Up-Up-Up", "i3", "r3"),
       PatternRow("up-up-down-down", "i4", "r4"),
       PatternRow("Up-Up-Down-Down", "i5", "r5"),
       PatternRow("Up-Down-Down-Down", "i6", "r6") >>
CsvB ==
    << PatternRow("Up-Up-Down-Up", "i7", "r7"),
       PatternRow("Up-Up-Down-Down", "i5", "r5"),
       PatternRow("Flat-Flat-Flat-Flat ", "i8", "r8"),
       PatternRow("Up-Up-Down-Down", "i9", "r9"),
       PatternRow("Down-Up-Down-Up", "i10", "r10") >>
Csvs == {CsvA, CsvB}

\* the categorical columns of a row
Categories ==
    { <<"Marina", "Villa", "1 B/R">>, <<"Downtown", "Unit", "2 B/R">>,
      <<NA, "Villa", "2 B/R">>, <<"Marina", "Unit", NA>> }
\* worth, raw date, transaction id and number of rows
Measures ==
    { <<Some(100), <<"date", 2>>, "t", 1>>,
      <<Some(110), <<"date", 3>>, "t", 2>>,
      <<None, <<"date", 3>>, "t", 1>>,
      <<Some(100), <<"text", 0>>, "t", 1>>,
      <<Some(110), <<"null", 0>>, "t", 1>>,
      <<Some(0), <<"date", 2>>, NA, 1>>,
      <<Some(100), <<"date", 3>>, "t", Ceiling - 1>> }
RawEntries ==
    { RawEntry(c[1], c[2], c[3], m[1], m[2], m[3], m[4]) : c \in Categories, m \in Measures }

RECURSIVE FilesUpTo(_)
FilesUpTo(k) ==
    IF k = 0 THEN { {} }
    ELSE LET less == FilesUpTo(k - 1)
         IN  less \cup { f \cup {e} : f \in less, e \in RawEntries }
\* the files of at most MaxRows entries
Files == FilesUpTo(MaxRows)

\* what a calendar quarter holds in a file of SeriesFiles: nothing, ten rows
\* of worth 100, eight of worth 110, or one row of worth 0 without an id; the
\* property type and the rooms columns are empty
Shapes == {"none", "a", "b", "z"}
SeriesEntry(q, shape) ==
    LET d == <<"date", MonthsPerQuarter * q + 1>>
    IN  IF shape = "a" THEN RawEntry("Marina", NA, NA, Some(100), d, "t", 10)
        ELSE IF shape = "b" THEN RawEntry("Marina", NA, NA, Some(110), d, "t", 8)
        ELSE RawEntry("Marina", NA, NA, Some(0), d, NA, 1)
SeriesFiles ==
    { { SeriesEntry(q, pick[q]) : q \in { x \in DOMAIN pick : pick[x] # "none" } } :
        pick \in [0..(NumQuarters - 1) -> Shapes] }

\* the state after the first script run of a process: both tables loaded and
\* cached, the start page rendered
Loaded(file, csv) ==
    /\ df = load_data(file)
    /\ patterns_df = load_patterns(csv)
    /\ submit = FALSE
    /\ area = {}
    /\ prop_type = {}
    /\ bedrooms = {}
    /\ budget = SliderMax(df)
    /\ date_range = DefaultDates(df)
    /\ assigned = {}
    /\ filtered = {}
    /\ grouped = << >>
    /\ latest = NoRow
    /\ previous = NoRow
    /\ year_ago = NoRow
    /\ qoq_price = Unbound
    /\ qoq_volume = Unbound
    /\ yoy_price = Unbound
    /\ yoy_volume = Unbound
    /\ pattern_key = ""
    /\ matched = << >>
    /\ insight = ""
    /\ reco = ""
    /\ out = <<StartInfo>>

Init ==
    \E file \in { f \in Files : FormRenders(load_data(f)) }, csv \in Csvs :
        Loaded(file, csv)

InitSeries ==
    \E file \in { f \in SeriesFiles : FormRenders(load_data(f)) }, csv \in Csvs :
        Loaded(file, csv)

Spec == Init /\ [][Next]_vars

SpecSeries == InitSeries /\ [][Next]_vars

----------------------------------------------------------------------------
(* Properties *)

Rendered(e) == \E i \in DOMAIN out : out[i] = e
RenderedWidget(w) == \E i \in DOMAIN out : out[i].w = w
\* the run reached the aggregation
Aggregated == submit /\ "grouped" \in assigned
\* the names of the trend metrics and of the pattern lookup are all unbound
NothingAfterGrouping ==
    /\ assigned \cap (TrendNames \cup {"pattern_key", "matched", "insight", "reco"})
           \subseteq {"filtered", "grouped"}
    /\ qoq_price = Unbound /\ qoq_volume = Unbound
    /\ yoy_price = Unbound /\ yoy_volume = Unbound
    /\ pattern_key = "" /\ matched = << >> /\ insight = "" /\ reco = ""
    /\ ~RenderedWidget("metric") /\ ~RenderedWidget("info") /\ ~RenderedWidget("markdown")
\* the classification of a change, from its sign
SignClass(x) ==
    CASE x.kind = "inf" -> "Up"
      [] x.kind = "-inf" -> "Down"
      [] x.kind = "nan" -> "Flat"
      [] x.kind = "fin" /\ x.num > 0 -> "Up"
      [] x.kind = "fin" /\ x.num < 0 -> "Down"
      [] x.kind = "fin" /\ x.num = 0 -> "Flat"
Classes == {"Up", "Down", "Flat"}
Join4(a, b, c, d) == a \o "-" \o b \o "-" \o c \o "-" \o d
\* a bin as the float64 row iloc returns
RowOf(b) == [quarter |-> b.quarter, avg_price |-> b.avg_price, volume |-> Fin(b.volume, 1)]

\* the predicates of the submitted form on one row
Satisfies(e) ==
    /\ (area # {} => e.area_name_en \in area)
    /\ (prop_type # {} => e.property_type_en \in prop_type)
    /\ (bedrooms # {} => e.rooms_en \in bedrooms)
    /\ ~IsNull(e.actual_worth)
    /\ Val(e.actual_worth) <= budget
    /\ ~IsNull(e.instance_date)
    /\ date_range[1] <= Val(e.instance_date)
    /\ Val(e.instance_date) <= date_range[2]

\* C1: after a submission the filtered set is a subset of the dataset, and a
\* row is retained if and only if it satisfies all the active predicates
\* together: area, property type and rooms each in the selected set when that
\* set is not empty, worth <= budget, and date in the interval, ends included.
C1_FilterExact ==
    submit => /\ filtered \subseteq df
              /\ \A e \in df : (e \in filtered) <=> Satisfies(e)

\* a submission with an area selected that retains a row dated at the end of
\* the interval and drops another row
C1_Witness ==
    /\ submit
    /\ area # {}
    /\ \E e \in filtered : Val(e.instance_date) = date_range[2]
    /\ \E e \in df : e \notin filtered /\ ~IsNull(e.actual_worth) /\ Val(e.actual_worth) > budget

\* C2: a filtered result of more than 300,000 rows ends the run with the
\* over-capacity warning alone (no matched count, no aggregation, no
\* percentages, no pattern key, no lookup); a result of 300,000 rows or fewer
\* is not refused.
C2_OverCapacityStops ==
    submit =>
        /\ RowCount(filtered) > Ceiling =>
               /\ out = <<TooManyWarning>>
               /\ assigned = {"filtered"}
               /\ grouped = << >>
               /\ NothingAfterGrouping
        /\ RowCount(filtered) <= Ceiling =>
               /\ out[1] = MatchedSuccess(RowCount(filtered))
               /\ "grouped" \in assigned
               /\ ~Rendered(TooManyWarning)

\* a submission whose result has 300,001 rows
C2_Witness ==
    /\ submit
    /\ RowCount(filtered) = Ceiling + 1
    /\ out = <<TooManyWarning>>

\* C3: when the quarterly series has fewer than 2 buckets (the empty filtered
\* set included) the run ends with the "not enough quarterly data" warning:
\* no percentage, no key and no lookup, and no exception.
C3_InsufficientData ==
    (Aggregated /\ Len(grouped) < 2) =>
        /\ out = <<MatchedSuccess(RowCount(filtered)), SummaryHeader, NotEnoughWarning>>
        /\ assigned = {"filtered", "grouped"}
        /\ NothingAfterGrouping
        /\ ~RenderedWidget("exception")

\* a submission whose series has exactly one bucket
C3_Witness ==
    /\ Aggregated
    /\ Len(grouped) = 1
    /\ Rendered(NotEnoughWarning)

\* C4: on a series of n >= 2 buckets in chronological order, latest is bucket
\* n and previous bucket n-1 (counting from 1); year_ago is bucket n-4 when
\* n >= 5 and previous when n <= 4, and then the YoY changes equal the QoQ
\* changes and the key repeats the price class and the volume class.
C4_TrendPositions ==
    (Aggregated /\ Len(grouped) >= 2) =>
        LET n == Len(grouped)
        IN  /\ \A i \in 1..(n - 1) : grouped[i].quarter < grouped[i + 1].quarter
            /\ TrendNames \subseteq assigned
            /\ latest = RowOf(grouped[n])
            /\ previous = RowOf(grouped[n - 1])
            /\ year_ago = IF n >= 5 THEN RowOf(grouped[n - 4]) ELSE previous
            /\ n <= 4 =>
                   /\ yoy_price = qoq_price
                   /\ yoy_volume = qoq_volume
                   /\ pattern_key = Join4(SignClass(qoq_price), SignClass(qoq_price),
                                          SignClass(qoq_volume), SignClass(qoq_volume))

\* a run on a series of four buckets whose price and volume both changed
C4_Witness ==
    /\ Aggregated
    /\ Len(grouped) = 4
    /\ year_ago = previous
    /\ yoy_price = qoq_price /\ SignClass(qoq_price) = "Up"
    /\ yoy_volume = qoq_volume /\ SignClass(qoq_volume) = "Down"

\* C5: the lookup ends in exactly one of two outcomes: when a catalog row has
\* an id equal to the key c1-c2-c3-c4 (the classes of QoQ price, YoY price,
\* QoQ volume, YoY volume) the insight and recommendation of the first such
\* row are returned unchanged; otherwise the no-pattern warning names the key.
C5_PatternLookup ==
    (submit /\ "pattern_key" \in assigned) =>
        LET key == Join4(SignClass(qoq_price), SignClass(yoy_price),
                         SignClass(qoq_volume), SignClass(yoy_volume))
            hits == { i \in DOMAIN patterns_df : patterns_df[i].PatternID = key }
            n == Len(out)
        IN  /\ pattern_key = key
            /\ IF hits # {}
               THEN LET row == patterns_df[SetMin(hits)]
                    IN  /\ insight = row.Insight
                        /\ reco = row.Recommendation
                        /\ SubSeq(out, n - 2, n) =
                               <<DetectedPattern(key), InsightInfo(row.Insight),
                                 RecoSuccess(row.Recommendation)>>
                        /\ ~Rendered(NoPatternWarning(key))
               ELSE /\ out[n] = NoPatternWarning(key)
                    /\ {"insight", "reco"} \cap assigned = {}
                    /\ insight = "" /\ reco = ""
                    /\ ~RenderedWidget("info")

\* a lookup of a key that two catalog rows have, with different insights
C5_Witness ==
    /\ submit
    /\ pattern_key = "Up-Up-Up-Up"
    /\ Len(matched) = 2
    /\ matched[1].Insight # matched[2].Insight
    /\ insight = matched[1].Insight

\* C6: every bucket of the quarterly series has volume >= 1.
C6_NoZeroVolume ==
    Aggregated => \A i \in DOMAIN grouped : grouped[i].volume >= 1

\* the change from a zero baseline to new, as numpy gives it
FromZero(new) ==
    IF new.num > 0 THEN PosInf ELSE IF new.num < 0 THEN NegInf ELSE NaN
AllKeys == { Join4(a, b, c, d) : a \in Classes, b \in Classes, c \in Classes, d \in Classes }

\* C7: when the baseline of a change is zero (average price 0 or volume 0 in
\* the previous or the year-ago bucket) the change has a determined value
\* (inf, -inf or nan by the sign of the new value), no exception leaves the
\* run, and the run ends in a match or a no-match on a key over Up, Down, Flat.
C7_ZeroBaseline ==
    (Aggregated /\ Len(grouped) >= 2) =>
        LET n == Len(grouped)
            new == RowOf(grouped[n])
            prev == grouped[n - 1]
            ago == IF n >= 5 THEN grouped[n - 4] ELSE prev
            zero == \/ prev.avg_price.num = 0 \/ prev.volume = 0
                    \/ ago.avg_price.num = 0 \/ ago.volume = 0
        IN  zero =>
               /\ ~RenderedWidget("exception")
               /\ TrendNames \cup {"pattern_key", "matched"} \subseteq assigned
               /\ prev.avg_price.num = 0 => qoq_price = FromZero(new.avg_price)
               /\ prev.volume = 0 => qoq_volume = FromZero(new.volume)
               /\ ago.avg_price.num = 0 => yoy_price = FromZero(new.avg_price)
               /\ ago.volume = 0 => yoy_volume = FromZero(new.volume)
               /\ pattern_key \in AllKeys
               /\ \/ out[Len(out)] = NoPatternWarning(pattern_key)
                  \/ /\ matched # << >>
                     /\ out[Len(out)] = RecoSuccess(reco)

\* a run whose previous bucket has volume 0 and average price 0
C7_Witness ==
    /\ Aggregated
    /\ Len(grouped) >= 2
    /\ previous.volume = Fin(0, 1)
    /\ previous.avg_price = Fin(0, 1)
    /\ qoq_volume = PosInf
    /\ qoq_price = PosInf
    /\ "pattern_key" \in assigned

MissingWorthOrDate(e) == IsNull(e.actual_worth) \/ IsNull(e.instance_date)

\* C8 as stated: the loaded dataset holds no row with a missing worth or a
\* missing or unparseable date.
C8_DroppedAtLoad ==
    \A e \in df : ~MissingWorthOrDate(e)

\* C8 as amended: the load keeps such rows (an unparseable date becomes NaT);
\* the worth and date comparisons of the filter drop them, so the filtered
\* set of a submission never holds one.
C8_DroppedByFilter ==
    submit => \A e \in filtered : ~MissingWorthOrDate(e)

\* a submission with every filter at its default on a dataset that holds such
\* a row, some other row being retained
C8_Witness ==
    /\ submit
    /\ \E e \in df : MissingWorthOrDate(e)
    /\ area = {} /\ prop_type = {} /\ bedrooms = {}
    /\ budget = SliderMax(df)
    /\ date_range = DefaultDates(df)
    /\ filtered # {}

\* the series of scenario A: Q1 (100, 10) then Q2 (110, 8), and nothing else
ScenarioA ==
    /\ Aggregated
    /\ Len(grouped) = 2
    /\ grouped[1].avg_price = Fin(100, 1) /\ grouped[1].volume = 10
    /\ grouped[2].avg_price = Fin(110, 1) /\ grouped[2].volume = 8

\* C9 as stated: in scenario A QoQ price is +10, QoQ volume is -20 and the
\* key begins with Up-Down.
C9_KeyBeginsUpDown ==
    ScenarioA =>
        /\ qoq_price = Fin(10, 1)
        /\ qoq_volume = Fin(0 - 20, 1)
        /\ pattern_key \in { Join4("Up", "Down", c, d) : c \in Classes, d \in Classes }

\* C9 as amended: in scenario A QoQ price is +10 and QoQ volume is -20, shown
\* as 10.0 and -20.0; their classes Up and Down are the first and the third
\* component of the key, which is Up-Up-Down-Down.
C9_ScenarioA ==
    ScenarioA =>
        /\ qoq_price = Fin(10, 1)
        /\ qoq_volume = Fin(0 - 20, 1)
        /\ out[3] = Element("metric", "Price QoQ", 0, [kind |-> "fin", num |-> 100, den |-> 10], "")
        /\ out[4] = Element("metric", "Volume QoQ", 0, [kind |-> "fin", num |-> 0 - 200, den |-> 10], "")
        /\ pattern_key = "Up-Up-Down-Down"

C9_Witness ==
    /\ ScenarioA
    /\ qoq_price = Fin(10, 1)
    /\ "pattern_key" \in assigned

\* C10: on a series of at least 5 buckets the YoY baseline is the bucket of
\* the calendar quarter four quarters before the latest bucket's quarter.
C10_YearAgoIsFourQuartersBack ==
    (Aggregated /\ "year_ago" \in assigned /\ Len(grouped) >= 5) =>
        year_ago.quarter = latest.quarter - 4

====
